---- MODULE Spec2Model ----
(***************************************************************************)
(* Model of the write-ingestion handler of servicesv2/write/server.go:     *)
(* WriteHandler.handleWrite with parsePoints, findTenantV2, findTenantV1,  *)
(* findOrganization and findBucket, running against the organization,      *)
(* bucket and DBRP-mapping directories and the storage-write service.      *)
(*                                                                         *)
(* One request is handled at a time (requests share no state).  The        *)
(* handler is split at its calls: precision switch, findTenantV2,          *)
(* findTenantV1, parsePoints, WritePoints.  `calls` records every call     *)
(* made to a collaborator, in order; `resp` records everything written to  *)
(* the http.ResponseWriter.                                                *)
(*                                                                         *)
(* The second part models the typed arrays of pkg/data/gen/arrays.gen.go   *)
(* (one template, the same for every value type): new<T>ArrayLen, Encode   *)
(* and Copy over Go slices, a slice being a length over a backing array    *)
(* with an identity.  ArraySpec builds arrays `a`, encodes them and copies  *)
(* them into one destination `dst`; RoundTripSpec encodes `a` into `buf`,  *)
(* decodes `buf` into `d` and copies `d` into `dst`.                       *)
(***************************************************************************)
EXTENDS Integers, Sequences, FiniteSets, TLC

VARIABLES
    pc,         \* position in handleWrite: idle, precision, tenantV2, tenantV1, parse, write, done
    req,        \* the request: query parameters, Content-Encoding, body
    precision,  \* local `precision` of handleWrite
    org,        \* local `org` of handleWrite
    bucket,     \* local `bucket` of handleWrite
    err,        \* local `err` returned by findTenantV2
    v1err,      \* local `v1err` returned by findTenantV1
    points,     \* number of points returned by parsePoints
    perr,       \* error returned by parsePoints
    werr,       \* error returned by WritePoints
    calls,      \* collaborator calls made for this request, in order
    resp,       \* responses written to w for this request, in order
    a,          \* a typed array built with new<T>ArrayLen and filled by its builder
    d,          \* the typed array a block is decoded into
    dst,        \* the cursors array that Copy is given as destination
    buf,        \* the buffer returned by the last Encode
    last,       \* the last array operation
    hist        \* lengths of a at its last three copies into dst, oldest first

hvars == <<pc, req, precision, org, bucket, err, v1err, points, perr, werr, calls, resp>>
avars == <<a, d, dst, buf, last, hist>>
vars == <<hvars, avars>>

(***************************************************************************)
(* Bounds                                                                  *)
(***************************************************************************)
MaxPoints == 2
\* largest size given to new<T>ArrayLen
MaxLen == 2

(***************************************************************************)
(* Values                                                                  *)
(***************************************************************************)
NoErr == [op |-> "", code |-> "", msg |-> ""]
NoOrg == [ID |-> 0, Name |-> ""]
NoBucket == [ID |-> 0, Name |-> "", OrganizationID |-> 0]

\* fmt.Errorf and io errors carry no influxdb code: ErrorCode gives EInternal
PlainErr(op, msg) == [op |-> op, code |-> "EInternal", msg |-> msg]

ErrorCode(e) == e.code

\* Directory contents.  Bucket 13 of organization 1 is NAMED like the ID of
\* bucket 12, which belongs to organization 2.  Mapping 4 points at an
\* organization and a bucket that no longer exist; mapping 5 names
\* organization 1 with a bucket of organization 2.
Orgs == { [ID |-> 1, Name |-> "acme"], [ID |-> 2, Name |-> "zeta"] }

Buckets == { [ID |-> 11, Name |-> "b1", OrganizationID |-> 1],
             [ID |-> 12, Name |-> "b2", OrganizationID |-> 2],
             [ID |-> 13, Name |-> "id12", OrganizationID |-> 1] }

Mappings == << [Database |-> "mydb", RetentionPolicy |-> "autogen", OrganizationID |-> 1, BucketID |-> 11],
               [Database |-> "dup", RetentionPolicy |-> "autogen", OrganizationID |-> 1, BucketID |-> 11],
               [Database |-> "dup", RetentionPolicy |-> "autogen", OrganizationID |-> 2, BucketID |-> 12],
               [Database |-> "gone", RetentionPolicy |-> "autogen", OrganizationID |-> 9, BucketID |-> 99],
               [Database |-> "mix", RetentionPolicy |-> "autogen", OrganizationID |-> 1, BucketID |-> 12] >>

\* Request alphabets
PrecisionTokens == {"", "ns", "us", "ms", "s", "m", "h", "n", "u", "d"}
OrgTokens == {"", "acme", "id2", "nope"}
OrgIDTokens == {"", "id1", "id9", "zz"}
BucketTokens == {"", "id11", "id12", "b1"}
DBTokens == {"", "mydb", "dup", "gone", "mix"}
RPTokens == {"autogen"}
\* "" zero bytes; "data" uncompressed bytes; "gz()" a gzip stream of zero
\* bytes; "gz(data)" a gzip stream of data; "gz(da" a gzip stream cut short
Bodies == {"", "data", "gz()", "gz(data)", "gz(da"}

NoReq == [precision |-> "", org |-> "", org_id |-> "", bucket |-> "", db |-> "", rp |-> "",
          gzip |-> FALSE, body |-> ""]

Requests == [precision : PrecisionTokens, org : OrgTokens, org_id : OrgIDTokens,
             bucket : BucketTokens, db : DBTokens, rp : RPTokens,
             gzip : BOOLEAN, body : Bodies]

\* a call to a collaborator: its arguments and the code of the error it
\* returned ("" when it returned none)
Call(svc, orgID, id, name, hasName, code) ==
    [svc |-> svc, orgID |-> orgID, id |-> id, name |-> name, hasName |-> hasName, code |-> code]

Resp(status, e) == [status |-> status, err |-> e]

(***************************************************************************)
(* Collaborators                                                           *)
(***************************************************************************)
\* influxdb.IDFromString: the ID a token encodes, or an error
WellFormedIDs == {"id1", "id2", "id9", "id11", "id12", "id13", "id99"}

IDValue(s) ==
    CASE s = "id1" -> 1 [] s = "id2" -> 2 [] s = "id9" -> 9 [] s = "id11" -> 11
      [] s = "id12" -> 12 [] s = "id13" -> 13 [] s = "id99" -> 99 [] OTHER -> 0

IDFromString(s) ==
    IF s \in WellFormedIDs
    THEN [id |-> IDValue(s), err |-> NoErr]
    ELSE [id |-> 0, err |-> [op |-> "IDFromString", code |-> "EInvalid", msg |-> "invalid ID"]]

Fault(op) == [op |-> op, code |-> "EInternal", msg |-> "unavailable"]
NotFound(op) == [op |-> op, code |-> "ENotFound", msg |-> "not found"]

\* OrganizationService.FindOrganization: the ID of the filter decides when
\* set, else the name; a filter with neither is answered as the directory
\* pleases (dflt: an organization, or NoOrg for an error).
FindOrganization(f, fault, dflt) ==
    LET op == "FindOrganization"
        m  == IF f.ID # 0 THEN {o \in Orgs : o.ID = f.ID}
              ELSE IF f.hasName THEN {o \in Orgs : o.Name = f.Name}
              ELSE {o \in Orgs : o = dflt}
    IN IF fault THEN [org |-> NoOrg, err |-> Fault(op)]
       ELSE IF m = {} THEN [org |-> NoOrg, err |-> NotFound(op)]
       ELSE [org |-> CHOOSE o \in m : TRUE, err |-> NoErr]

\* OrganizationService.FindOrganizationByID
FindOrganizationByID(id, fault) ==
    LET op == "FindOrganizationByID"
        m  == {o \in Orgs : o.ID = id}
    IN IF fault THEN [org |-> NoOrg, err |-> Fault(op)]
       ELSE IF m = {} THEN [org |-> NoOrg, err |-> NotFound(op)]
       ELSE [org |-> CHOOSE o \in m : TRUE, err |-> NoErr]

\* BucketService.FindBucket: organization scope and ID, or scope and name
FindBucket(f, fault) ==
    LET op == IF f.ID # 0 THEN "FindBucket(id)" ELSE "FindBucket(name)"
        m  == {b \in Buckets : /\ b.OrganizationID = f.OrganizationID
                               /\ (f.ID # 0 => b.ID = f.ID)
                               /\ (f.hasName => b.Name = f.Name)}
    IN IF fault THEN [bucket |-> NoBucket, err |-> Fault(op)]
       ELSE IF m = {} THEN [bucket |-> NoBucket, err |-> NotFound(op)]
       ELSE [bucket |-> CHOOSE b \in m : TRUE, err |-> NoErr]

\* BucketService.FindBucketByID
FindBucketByID(id, fault) ==
    LET op == "FindBucketByID"
        m  == {b \in Buckets : b.ID = id}
    IN IF fault THEN [bucket |-> NoBucket, err |-> Fault(op)]
       ELSE IF m = {} THEN [bucket |-> NoBucket, err |-> NotFound(op)]
       ELSE [bucket |-> CHOOSE b \in m : TRUE, err |-> NoErr]

\* DBRPMappingServiceV2.FindMany: the mappings matching database and
\* retention policy, in directory order
FindMany(db, rp, fault) ==
    IF fault THEN [dbrps |-> <<>>, err |-> Fault("FindMany")]
    ELSE [dbrps |-> SelectSeq(Mappings, LAMBDA m : m.Database = db /\ m.RetentionPolicy = rp),
          err |-> NoErr]

(***************************************************************************)
(* handleWrite: precision                                                  *)
(***************************************************************************)
\* first switch: the rewritten precision, or the error of its default case
PrecisionStageOne(p) ==
    IF p = "ns" THEN [precision |-> "n", err |-> NoErr]
    ELSE IF p = "us" THEN [precision |-> "u", err |-> NoErr]
    ELSE IF p \in {"ms", "s", ""} THEN [precision |-> p, err |-> NoErr]
    ELSE [precision |-> p,
          err |-> PlainErr("handleWrite", "invalid precision (use ns, us, ms or s)")]

\* second switch
PrecisionStageTwo(p) ==
    IF p \in {"", "n", "ns", "u", "ms", "s", "m", "h"} THEN NoErr
    ELSE PlainErr("handleWrite", "invalid precision (use n, u, ms, s, m or h)")

(***************************************************************************)
(* Tenant resolution                                                       *)
(***************************************************************************)
EmptyOrgFilter == [ID |-> 0, Name |-> "", hasName |-> FALSE]

\* the OrganizationFilter built from org, then org_id
OrganizationFilter(r) ==
    LET f1 == IF r.org # ""
              THEN IF IDFromString(r.org).err = NoErr
                   THEN [EmptyOrgFilter EXCEPT !.ID = IDFromString(r.org).id]
                   ELSE [EmptyOrgFilter EXCEPT !.Name = r.org, !.hasName = TRUE]
              ELSE EmptyOrgFilter
    IN IF r.org_id # "" THEN [f1 EXCEPT !.ID = IDFromString(r.org_id).id] ELSE f1

findOrganization(r, fault, dflt) ==
    IF r.org_id # "" /\ IDFromString(r.org_id).err # NoErr
    THEN [org |-> NoOrg, err |-> IDFromString(r.org_id).err, calls |-> <<>>]
    ELSE LET f   == OrganizationFilter(r)
             res == FindOrganization(f, fault, dflt)
         IN [org |-> res.org, err |-> res.err,
             calls |-> <<Call("FindOrganization", 0, f.ID, f.Name, f.hasName, res.err.code)>>]

\* variant: no failure of the lookup by ID is returned
IDLookupFails_never(e) == FALSE

\* the test after the lookup by ID: a failure that is returned as it is
IDLookupFails(e) == e # NoErr /\ ErrorCode(e) # "ENotFound"

findBucket(r, orgID, faultID, faultName) ==
    LET id     == IDFromString(r.bucket)
        byID   == FindBucket([OrganizationID |-> orgID, ID |-> id.id, Name |-> "", hasName |-> FALSE],
                             faultID)
        cID    == Call("FindBucket", orgID, id.id, "", FALSE, byID.err.code)
        byName == FindBucket([OrganizationID |-> orgID, ID |-> 0, Name |-> r.bucket, hasName |-> TRUE],
                             faultName)
        cName  == Call("FindBucket", orgID, 0, r.bucket, TRUE, byName.err.code)
    IN IF id.err = NoErr /\ IDLookupFails(byID.err)
       THEN [bucket |-> NoBucket, err |-> byID.err, calls |-> <<cID>>]
       ELSE IF id.err = NoErr /\ byID.err = NoErr
       THEN [bucket |-> byID.bucket, err |-> NoErr, calls |-> <<cID>>]
       ELSE [bucket |-> byName.bucket, err |-> byName.err,
             calls |-> (IF id.err = NoErr THEN <<cID>> ELSE <<>>) \o <<cName>>]

findTenantV2(r, faultOrg, dflt, faultID, faultName) ==
    LET o == findOrganization(r, faultOrg, dflt)
        b == findBucket(r, o.org.ID, faultID, faultName)
    IN IF o.err # NoErr
       THEN [org |-> NoOrg, bucket |-> NoBucket, err |-> o.err, calls |-> o.calls]
       ELSE IF b.err # NoErr
       THEN [org |-> NoOrg, bucket |-> NoBucket, err |-> b.err, calls |-> o.calls \o b.calls]
       ELSE [org |-> o.org, bucket |-> b.bucket, err |-> NoErr, calls |-> o.calls \o b.calls]

\* variant: several mappings are accepted and the first one is taken
NotSingleMapping_none(dbrps) == Len(dbrps) = 0

\* the test on the number of mappings found
NotSingleMapping(dbrps) == Len(dbrps) # 1

findTenantV1(r, faultMany, faultOrg, faultBucket) ==
    LET many == FindMany(r.db, r.rp, faultMany)
        cM   == Call("FindMany", 0, 0, r.db, TRUE, many.err.code)
        m    == many.dbrps[1]
        o    == FindOrganizationByID(m.OrganizationID, faultOrg)
        cO   == Call("FindOrganizationByID", 0, m.OrganizationID, "", FALSE, o.err.code)
        b    == FindBucketByID(m.BucketID, faultBucket)
        cB   == Call("FindBucketByID", 0, m.BucketID, "", FALSE, b.err.code)
    IN IF many.err # NoErr
       THEN [org |-> NoOrg, bucket |-> NoBucket, err |-> many.err, calls |-> <<cM>>]
       ELSE IF NotSingleMapping(many.dbrps)
       THEN [org |-> NoOrg, bucket |-> NoBucket,
             err |-> PlainErr("findTenantV1", "failed for find DBRP mapping"), calls |-> <<cM>>]
       ELSE IF o.err # NoErr
       THEN [org |-> NoOrg, bucket |-> NoBucket, err |-> o.err, calls |-> <<cM, cO>>]
       ELSE IF b.err # NoErr
       THEN [org |-> NoOrg, bucket |-> NoBucket, err |-> b.err, calls |-> <<cM, cO, cB>>]
       ELSE [org |-> o.org, bucket |-> b.bucket, err |-> NoErr, calls |-> <<cM, cO, cB>>]

\* variants: the legacy scheme is always tried, is never tried
NeedsFallback_always(e) == TRUE

NeedsFallback_never(e) == FALSE

\* handleWrite falls back to the legacy scheme
NeedsFallback(e) == e # NoErr

\* variant: the legacy scheme's error is reported
TenantError_legacy(e, v1) == v1

\* the error handleWrite reports when both schemes failed
TenantError(e, v1) == e

(***************************************************************************)
(* parsePoints and the write                                               *)
(***************************************************************************)
\* gzip.NewReader reads the 10-byte header: io.EOF on zero bytes of input,
\* gzip.ErrHeader on bytes that are no gzip stream
gzipNewReader(body) ==
    IF body = "" THEN PlainErr("gzip.NewReader", "EOF")
    ELSE IF body = "data" THEN PlainErr("gzip.NewReader", "gzip: invalid header")
    ELSE NoErr

\* bytes.Buffer.ReadFrom(body): the bytes read, or the reader's error (io.EOF
\* ends the read and is no error); a stream cut short is io.ErrUnexpectedEOF
ReadFrom(body, gz, fault) ==
    IF fault THEN [content |-> "", err |-> PlainErr("ReadFrom", "connection reset")]
    ELSE IF gz /\ body = "gz(da" THEN [content |-> "", err |-> PlainErr("ReadFrom", "unexpected EOF")]
    ELSE IF gz /\ body = "gz()" THEN [content |-> "", err |-> NoErr]
    ELSE IF gz /\ body = "gz(data)" THEN [content |-> "data", err |-> NoErr]
    ELSE IF body = "" THEN [content |-> "", err |-> NoErr]
    ELSE [content |-> "data", err |-> NoErr]

ParseErrors == {NoErr, PlainErr("ParsePoints", "EOF"), PlainErr("ParsePoints", "unable to parse")}

\* models.ParsePointsWithPrecision: an empty buffer is end-of-stream with no
\* point; any other buffer gives n points and the error e
ParsePointsWithPrecision(content, n, e) ==
    IF content = "" THEN [points |-> 0, err |-> PlainErr("ParsePoints", "EOF")]
    ELSE [points |-> n, err |-> e]

\* variant: the reader is closed after the parse only, not on the return
\* after a failed read
closeOnReturn_parsedOnly(r, exit) ==
    IF r.gzip /\ exit = "parsed" THEN <<Call("gzip.Close", 0, 0, r.body, FALSE, "")>> ELSE <<>>

\* defer b.Close(): runs on every return that follows the opening of the
\* reader (exit: "read" after a failed read, "parsed" after the parse)
closeOnReturn(r, exit) ==
    IF r.gzip THEN <<Call("gzip.Close", 0, 0, r.body, FALSE, "")>> ELSE <<>>

parsePoints(r, faultRead, n, e) ==
    LET gz     == r.gzip
        open   == gzipNewReader(r.body)
        cOpen  == IF gz THEN <<Call("gzip.NewReader", 0, 0, r.body, FALSE, open.code)>> ELSE <<>>
        rd     == ReadFrom(r.body, gz, faultRead)
        cRead  == <<Call("ReadFrom", 0, 0, r.body, FALSE, rd.err.code)>>
        pp     == ParsePointsWithPrecision(rd.content, n, e)
        cParse == <<Call("ParsePointsWithPrecision", 0, 0, rd.content, FALSE, pp.err.code)>>
    IN IF gz /\ open # NoErr
       THEN [points |-> 0, err |-> open, calls |-> cOpen]
       ELSE IF rd.err # NoErr
       THEN [points |-> 0, err |-> rd.err, calls |-> cOpen \o cRead \o closeOnReturn(r, "read")]
       ELSE [points |-> pp.points, err |-> pp.err,
             calls |-> cOpen \o cRead \o cParse \o closeOnReturn(r, "parsed")]

\* variants: the number of points is not looked at; no error is taken for
\* the empty request
IsNoContent_anyEOF(e, n) == e.msg = "EOF"

IsNoContent_never(e, n) == FALSE

\* handleWrite's test for the empty request
IsNoContent(e, n) == e.msg = "EOF" /\ n = 0

\* variant: organization and bucket ID change places
WriteTarget_swapped(o, b) == [orgID |-> b.ID, id |-> o.ID]

\* the IDs handleWrite passes to WritePoints
WriteTarget(o, b) == [orgID |-> o.ID, id |-> b.ID]

\* variants: the error of WritePoints is dropped; is replaced by another
WriteResponse_always204(e) == Resp("204", NoErr)

WriteResponse_wrapped(e) ==
    IF e # NoErr THEN Resp("error", PlainErr("handleWrite", "write failed")) ELSE Resp("204", NoErr)

\* what handleWrite writes after WritePoints returned e
WriteResponse(e) == IF e # NoErr THEN Resp("error", e) ELSE Resp("204", NoErr)

(***************************************************************************)
(* Typed arrays                                                            *)
(***************************************************************************)
\* A slice: the identity of its backing array (0: nil), the backing array
\* (its length is the capacity) and the length of the slice.
NilSlice == [id |-> 0, arr |-> <<>>, len |-> 0]
Cap(s) == Len(s.arr)
Elems(s) == SubSeq(s.arr, 1, s.len)

\* the zero value of cursors.<T>Array
NilArray == [Timestamps |-> NilSlice, Values |-> NilSlice]

\* the contents a builder writes: timestamps seed+1, seed+2, ... with values
\* 10*seed+1, 10*seed+2, ... (a new array holds zeros)
Seeds == {1}

\* spare elements a new backing array may come with (the allocator rounds
\* sizes up)
Slacks == {0, 1}

\* Identities of backing arrays.  The arrays of a, of d and of dst never
\* share storage; a new backing array gets the first identity of the range
\* of its owner that the owner does not use (the storage it lets go of is
\* garbage and may come back later).
IDsOf(x) == {x.Timestamps.id, x.Values.id}
PoolA == 1..2
PoolD == 3..4
PoolDst == 5..8

FreshID(pool, used) ==
    CHOOSE i \in pool : i \notin used /\ \A j \in pool : j < i => j \in used

\* make([]T, sz): a new zeroed backing array of sz elements
MakeSlice(id, sz) == [id |-> id, arr |-> [k \in 1..sz |-> 0], len |-> sz]

\* variant: the values are made with length 0 and capacity sz
newArrayLen_emptyValues(sz, id1, id2) ==
    [Timestamps |-> MakeSlice(id1, sz), Values |-> [MakeSlice(id2, sz) EXCEPT !.len = 0]]

newArrayLen(sz, id1, id2) ==
    [Timestamps |-> MakeSlice(id1, sz), Values |-> MakeSlice(id2, sz)]

\* variant: the destination is not cut to length 0
Truncate_keep(s) == s

\* s[:0]
Truncate(s) == [s EXCEPT !.len = 0]

\* variants: a destination with room is resliced and not written; a new
\* backing array is taken every time
AppendAll_resliceOnly(s, xs, id, slack) ==
    LET n == s.len + Len(xs)
    IN IF n <= Cap(s)
       THEN [s EXCEPT !.len = n]
       ELSE [id |-> id, len |-> n,
             arr |-> [k \in 1..(n + slack) |->
                        IF k <= s.len THEN s.arr[k] ELSE IF k <= n THEN xs[k - s.len] ELSE 0]]

AppendAll_alwaysNew(s, xs, id, slack) ==
    LET n == s.len + Len(xs)
    IN [id |-> id, len |-> n,
        arr |-> [k \in 1..(n + slack) |->
                   IF k <= s.len THEN s.arr[k] ELSE IF k <= n THEN xs[k - s.len] ELSE 0]]

\* append(s, xs...): written after s in its backing array when the capacity
\* is enough, else into a new backing array (id) of at least the needed size
AppendAll(s, xs, id, slack) ==
    LET n == s.len + Len(xs)
    IN IF n <= Cap(s)
       THEN [s EXCEPT !.len = n,
                      !.arr = [k \in 1..Cap(s) |->
                                 IF k <= s.len THEN s.arr[k]
                                 ELSE IF k <= n THEN xs[k - s.len] ELSE s.arr[k]]]
       ELSE [id |-> id, len |-> n,
             arr |-> [k \in 1..(n + slack) |->
                        IF k <= s.len THEN s.arr[k] ELSE IF k <= n THEN xs[k - s.len] ELSE 0]]

\* src.Copy(&to)
Copy(src, to, id1, id2, slack1, slack2) ==
    [Timestamps |-> AppendAll(Truncate(to.Timestamps), Elems(src.Timestamps), id1, slack1),
     Values     |-> AppendAll(Truncate(to.Values), Elems(src.Values), id2, slack2)]

\* tsm1.Encode<T>ArrayBlock: the block of the array (count, timestamps,
\* values) appended to b
EncodeArrayBlock(arr, b) ==
    b \o <<Len(Elems(arr.Timestamps))>> \o Elems(arr.Timestamps) \o Elems(arr.Values)

\* src.Encode(b)
Encode(src, b, fails) ==
    IF fails THEN [b |-> <<>>, err |-> TRUE]
    ELSE [b |-> EncodeArrayBlock(src, b), err |-> FALSE]

\* the number of values of a block
BlockCount(blk) == blk[1]

\* tsm1.Decode<T>ArrayBlock into an array made by new<T>ArrayLen(count)
DecodeArrayBlock(blk, into) ==
    LET n == BlockCount(blk)
    IN [Timestamps |-> [into.Timestamps EXCEPT !.arr = SubSeq(blk, 2, n + 1)],
        Values     |-> [into.Values EXCEPT !.arr = SubSeq(blk, n + 2, 2 * n + 1)]]

\* the builder's contents for a slice of the given length
Filled(s, base) == [s EXCEPT !.arr = [k \in 1..Cap(s) |-> IF k <= s.len THEN base + k ELSE s.arr[k]]]

NoOp == [op |-> "", src |-> "", sz |-> 0, err |-> FALSE]

Remember(h, n) == IF Len(h) < 3 THEN Append(h, n) ELSE Append(Tail(h), n)

Init ==
    /\ pc = "idle"
    /\ req = NoReq
    /\ precision = ""
    /\ org = NoOrg
    /\ bucket = NoBucket
    /\ err = NoErr
    /\ v1err = NoErr
    /\ points = 0
    /\ perr = NoErr
    /\ werr = NoErr
    /\ calls = <<>>
    /\ resp = <<>>
    /\ a = NilArray
    /\ d = NilArray
    /\ dst = NilArray
    /\ buf = <<>>
    /\ last = NoOp
    /\ hist = <<>>

\* the router hands a POST to handleWrite; requests share no state, so one
\* request stands for all
Request ==
    /\ pc = "idle"
    /\ \E r \in Requests : req' = r
    /\ pc' = "precision"
    /\ precision' = ""
    /\ org' = NoOrg
    /\ bucket' = NoBucket
    /\ err' = NoErr
    /\ v1err' = NoErr
    /\ points' = 0
    /\ perr' = NoErr
    /\ werr' = NoErr
    /\ calls' = <<>>
    /\ resp' = <<>>
    /\ UNCHANGED avars

Precision ==
    /\ pc = "precision"
    /\ LET s1 == PrecisionStageOne(req.precision)
           s2 == PrecisionStageTwo(s1.precision)
       IN IF s1.err # NoErr
          THEN /\ precision' = s1.precision
               /\ resp' = Append(resp, Resp("error", s1.err))
               /\ pc' = "done"
          ELSE IF s2 # NoErr
          THEN /\ precision' = s1.precision
               /\ resp' = Append(resp, Resp("error", s2))
               /\ pc' = "done"
          ELSE /\ precision' = s1.precision
               /\ resp' = resp
               /\ pc' = "tenantV2"
    /\ UNCHANGED <<req, org, bucket, err, v1err, points, perr, werr, calls, avars>>

FindTenantV2 ==
    /\ pc = "tenantV2"
    /\ \E faultOrg, faultID, faultName \in BOOLEAN, dflt \in Orgs \cup {NoOrg} :
         LET t == findTenantV2(req, faultOrg, dflt, faultID, faultName)
         IN /\ org' = t.org
            /\ bucket' = t.bucket
            /\ err' = t.err
            /\ calls' = calls \o t.calls
            /\ pc' = IF NeedsFallback(t.err) THEN "tenantV1" ELSE "parse"
    /\ UNCHANGED <<req, precision, v1err, points, perr, werr, resp, avars>>

FindTenantV1 ==
    /\ pc = "tenantV1"
    /\ \E faultMany, faultOrg, faultBucket \in BOOLEAN :
         LET t == findTenantV1(req, faultMany, faultOrg, faultBucket)
         IN /\ org' = t.org
            /\ bucket' = t.bucket
            /\ v1err' = t.err
            /\ calls' = calls \o t.calls
            /\ IF t.err # NoErr
               THEN /\ resp' = Append(resp, Resp("error", TenantError(err, t.err)))
                    /\ pc' = "done"
               ELSE /\ resp' = resp
                    /\ pc' = "parse"
    /\ UNCHANGED <<req, precision, err, points, perr, werr, avars>>

ParsePoints ==
    /\ pc = "parse"
    /\ \E faultRead \in BOOLEAN, n \in 0..MaxPoints, e \in ParseErrors :
         LET p == parsePoints(req, faultRead, n, e)
         IN /\ points' = p.points
            /\ perr' = p.err
            /\ calls' = calls \o p.calls
            /\ IF p.err # NoErr
               THEN /\ resp' = Append(resp, IF IsNoContent(p.err, p.points)
                                            THEN Resp("200", NoErr)
                                            ELSE Resp("error", p.err))
                    /\ pc' = "done"
               ELSE /\ resp' = resp
                    /\ pc' = "write"
    /\ UNCHANGED <<req, precision, org, bucket, err, v1err, werr, avars>>

WritePoints ==
    /\ pc = "write"
    /\ \E e \in {NoErr, Fault("WritePoints")} :
         /\ werr' = e
         /\ calls' = Append(calls, Call("WritePoints", WriteTarget(org, bucket).orgID,
                                        WriteTarget(org, bucket).id, "", FALSE, e.code))
         /\ resp' = Append(resp, WriteResponse(e))
         /\ pc' = "done"
    /\ UNCHANGED <<req, precision, org, bucket, err, v1err, points, perr, avars>>

Next ==
    \/ Request
    \/ Precision
    \/ FindTenantV2
    \/ FindTenantV1
    \/ ParsePoints
    \/ WritePoints

Spec == Init /\ [][Next]_vars

(***************************************************************************)
(* Array operations                                                        *)
(***************************************************************************)
\* a = new<T>ArrayLen(sz)
Construct ==
    /\ \E sz \in 0..MaxLen :
         LET id1 == FreshID(PoolA, {})
             id2 == FreshID(PoolA, {id1})
         IN /\ a' = newArrayLen(sz, id1, id2)
            /\ last' = [NoOp EXCEPT !.op = "Construct", !.sz = sz]
    /\ UNCHANGED <<hvars, d, dst, buf, hist>>

\* the builder writes the elements of a
Populate ==
    /\ a.Timestamps.len > 0
    /\ \E seed \in Seeds :
         a' = [Timestamps |-> Filled(a.Timestamps, seed), Values |-> Filled(a.Values, 10 * seed)]
    /\ last' = [NoOp EXCEPT !.op = "Populate"]
    /\ UNCHANGED <<hvars, d, dst, buf, hist>>

\* _, err = a.Encode(nil): the caller looks at the error only
EncodeCheck ==
    /\ a # NilArray
    /\ \E fails \in BOOLEAN :
         last' = [NoOp EXCEPT !.op = "Encode", !.err = Encode(a, <<>>, fails).err]
    /\ UNCHANGED <<hvars, a, d, dst, buf, hist>>

\* buf, err = a.Encode(nil)
EncodeA ==
    /\ a # NilArray
    /\ \E fails \in BOOLEAN :
         LET e == Encode(a, <<>>, fails)
         IN /\ buf' = e.b
            /\ last' = [NoOp EXCEPT !.op = "Encode", !.err = e.err]
    /\ UNCHANGED <<hvars, a, d, dst, hist>>

\* d = new<T>ArrayLen(count of buf), then the block of buf is decoded into d
Decode ==
    /\ buf # <<>>
    /\ LET id1 == FreshID(PoolD, {})
           id2 == FreshID(PoolD, {id1})
       IN d' = DecodeArrayBlock(buf, newArrayLen(BlockCount(buf), id1, id2))
    /\ last' = [NoOp EXCEPT !.op = "Decode", !.sz = BlockCount(buf)]
    /\ UNCHANGED <<hvars, a, dst, buf, hist>>

\* a.Copy(&dst)
CopyA ==
    /\ a # NilArray
    /\ \E slack1, slack2 \in Slacks :
         LET id1 == FreshID(PoolDst, IDsOf(dst))
             id2 == FreshID(PoolDst, IDsOf(dst) \cup {id1})
         IN dst' = Copy(a, dst, id1, id2, slack1, slack2)
    /\ hist' = Remember(hist, a.Timestamps.len)
    /\ last' = [NoOp EXCEPT !.op = "Copy", !.src = "a"]
    /\ UNCHANGED <<hvars, a, d, buf>>

\* d.Copy(&dst)
CopyD ==
    /\ d # NilArray
    /\ \E slack1, slack2 \in Slacks :
         LET id1 == FreshID(PoolDst, IDsOf(dst))
             id2 == FreshID(PoolDst, IDsOf(dst) \cup {id1})
         IN dst' = Copy(d, dst, id1, id2, slack1, slack2)
    /\ last' = [NoOp EXCEPT !.op = "Copy", !.src = "d"]
    /\ UNCHANGED <<hvars, a, d, buf, hist>>

ArrayNext ==
    \/ Construct
    \/ Populate
    \/ EncodeCheck
    \/ CopyA

RoundTripNext ==
    \/ Construct
    \/ Populate
    \/ EncodeA
    \/ Decode
    \/ CopyD

ArraySpec == Init /\ [][ArrayNext]_vars

RoundTripSpec == Init /\ [][RoundTripNext]_vars

(***************************************************************************)
(* Properties                                                              *)
(***************************************************************************)
HasCall(svcs) == \E i \in 1..Len(calls) : calls[i].svc \in svcs
CallsTo(svcs) == SelectSeq(calls, LAMBDA c : c.svc \in svcs)

InvalidPrecisionMsgs == {"invalid precision (use ns, us, ms or s)",
                         "invalid precision (use n, u, ms, s, m or h)"}

\* the request ended with an invalid-precision failure
InvalidPrecisionFailure ==
    /\ pc = "done"
    /\ Len(resp) = 1
    /\ resp[1].status = "error"
    /\ resp[1].err.msg \in InvalidPrecisionMsgs

PrecisionDecided == pc \notin {"idle", "precision"}

\* tenant resolution is over (both schemes, where the second one ran)
TenantDecided == pc \in {"parse", "write", "done"} /\ ~InvalidPrecisionFailure

\* parsePoints has run
ParseDecided == pc \in {"write", "done"} /\ HasCall({"gzip.NewReader", "ReadFrom"})

MatchingMappings == SelectSeq(Mappings, LAMBDA m : m.Database = req.db /\ m.RetentionPolicy = req.rp)

NormalizedToken(t) == CASE t = "ns" -> "n" [] t = "us" -> "u" [] OTHER -> t

\* C1: the tokens "", ns, us, ms, s are normalized to "", n, u, ms, s; the
\* tokens m and h are kept as they are and the request is not rejected; every
\* other token ends the request with an invalid-precision failure.
C1_PrecisionNormalization ==
    PrecisionDecided =>
        IF req.precision \in {"", "ns", "us", "ms", "s", "m", "h"}
        THEN precision = NormalizedToken(req.precision) /\ ~InvalidPrecisionFailure
        ELSE InvalidPrecisionFailure

\* C2: when the current scheme and the legacy scheme both fail, the one
\* response written is a failure that carries the error findTenantV2
\* returned, which is never the error findTenantV1 returned.
C2_CurrentSchemeErrorReported ==
    (pc = "done" /\ err # NoErr /\ v1err # NoErr) =>
        /\ Len(resp) = 1
        /\ resp[1].status = "error"
        /\ resp[1].err = err
        /\ resp[1].err # v1err

C2_Witness ==
    /\ pc = "done" /\ err # NoErr /\ v1err # NoErr
    /\ v1err.op = "findTenantV1"
    /\ Len(MatchingMappings) >= 2
    /\ Len(resp) = 1

\* C3: FindMany is called only after findTenantV2 has failed; a request with
\* a well-formed org_id and a bucket parameter that is the ID of a bucket of
\* that organization resolves to that organization and bucket without a call
\* of FindMany (the directories answering, not failing).
C3_LegacyOnlyAfterCurrentFailed ==
    /\ HasCall({"FindMany"}) => err # NoErr
    /\ \A o \in Orgs, b \in Buckets :
         ( /\ TenantDecided
           /\ IDFromString(req.org_id).err = NoErr /\ IDFromString(req.org_id).id = o.ID
           /\ IDFromString(req.bucket).err = NoErr /\ IDFromString(req.bucket).id = b.ID
           /\ b.OrganizationID = o.ID
           /\ err.msg # "unavailable" )
         => (err = NoErr /\ org = o /\ bucket = b /\ ~HasCall({"FindMany"}))

C3_Witness ==
    /\ TenantDecided
    /\ req.org_id = "id1" /\ req.bucket = "id11" /\ req.org = "nope" /\ req.db = "mydb"
    /\ org.ID = 1 /\ bucket.ID = 11
    /\ ~HasCall({"FindMany"})

\* C4: findBucket looks the bucket parameter up as an ID first when it is a
\* well-formed ID; the lookup by name comes only after no lookup by ID or a
\* lookup by ID that returned NotFound, and has the same organization scope;
\* a lookup by ID failing otherwise ends findBucket with that error and no
\* lookup by name; a lookup by ID that succeeds gives the bucket with no
\* lookup by name.
C4_BucketLookupOrder ==
    LET bc == CallsTo({"FindBucket"})
    IN (pc \notin {"idle", "precision", "tenantV2"}) =>
        /\ Len(bc) <= 2
        /\ (Len(bc) >= 1 /\ IDFromString(req.bucket).err = NoErr) =>
               (~bc[1].hasName /\ bc[1].id = IDFromString(req.bucket).id)
        /\ (Len(bc) >= 1 /\ IDFromString(req.bucket).err # NoErr) =>
               (Len(bc) = 1 /\ bc[1].hasName /\ bc[1].name = req.bucket)
        /\ Len(bc) = 2 =>
               /\ ~bc[1].hasName /\ bc[1].code = "ENotFound"
               /\ bc[2].hasName /\ bc[2].name = req.bucket /\ bc[2].id = 0
               /\ bc[2].orgID = bc[1].orgID
        /\ (Len(bc) >= 1 /\ ~bc[1].hasName /\ bc[1].code \notin {"", "ENotFound"}) =>
               /\ Len(bc) = 1
               /\ err = [op |-> "FindBucket(id)", code |-> bc[1].code, msg |-> "unavailable"]
        /\ (Len(bc) >= 1 /\ ~bc[1].hasName /\ bc[1].code = "") =>
               /\ Len(bc) = 1
               /\ err = NoErr
               /\ bucket.ID = bc[1].id /\ bucket.OrganizationID = bc[1].orgID

C4_Witness ==
    LET bc == CallsTo({"FindBucket"})
    IN /\ pc = "parse"
       /\ req.bucket = "id12"
       /\ Len(bc) = 2 /\ bc[1].code = "ENotFound" /\ bc[2].code = ""
       /\ bucket.ID = 13

\* C5: a request with db and rp only (no org, org_id, bucket) whose (db, rp)
\* matches exactly one mapping resolves to the organization and the bucket
\* with the IDs stored in that mapping (both existing, the directories
\* answering, not failing).
C5_SingleMappingResolves ==
    \A o \in Orgs, b \in Buckets :
        ( /\ TenantDecided
          /\ req.org = "" /\ req.org_id = "" /\ req.bucket = ""
          /\ Len(MatchingMappings) = 1
          /\ MatchingMappings[1].OrganizationID = o.ID
          /\ MatchingMappings[1].BucketID = b.ID
          /\ v1err.msg # "unavailable" )
        => (v1err = NoErr /\ org = o /\ bucket = b /\ HasCall({"FindMany"}))

C5_Witness ==
    /\ pc = "parse"
    /\ req.org = "" /\ req.org_id = "" /\ req.bucket = "" /\ req.db = "mydb"
    /\ org.ID = 1 /\ bucket.ID = 11
    /\ HasCall({"FindOrganizationByID"}) /\ HasCall({"FindBucketByID"})

\* C6: findTenantV1 succeeds only if FindMany returned exactly one mapping;
\* with no mapping or several it fails and makes no lookup of an
\* organization or a bucket by ID.
C6_ExactlyOneMapping ==
    (HasCall({"FindMany"}) /\ pc \in {"parse", "write", "done"}) =>
        /\ v1err = NoErr => (Len(MatchingMappings) = 1 /\ org.ID = MatchingMappings[1].OrganizationID
                                                          /\ bucket.ID = MatchingMappings[1].BucketID)
        /\ Len(MatchingMappings) # 1 =>
               /\ v1err # NoErr
               /\ ~HasCall({"FindOrganizationByID", "FindBucketByID"})
               /\ pc = "done" /\ resp[1].status = "error"

C6_Witness ==
    /\ pc = "done"
    /\ Len(MatchingMappings) >= 2
    /\ CallsTo({"FindMany"}) # <<>> /\ CallsTo({"FindMany"})[1].code = ""
    /\ v1err.op = "findTenantV1"

\* C7: when parsePoints returns an EOF error and no point, the request ends
\* with the 200 response and WritePoints is not called; with any other error
\* of parsePoints, or EOF and one or more points, it ends with a failure.
C7_EmptyParseIsNoContent ==
    (ParseDecided /\ perr # NoErr) =>
        /\ pc = "done"
        /\ ~HasCall({"WritePoints"})
        /\ Len(resp) = 1
        /\ IF perr.msg = "EOF" /\ points = 0
           THEN resp[1] = Resp("200", NoErr)
           ELSE resp[1] = Resp("error", perr)

C7_Witness ==
    /\ ParseDecided
    /\ perr = PlainErr("ParsePoints", "EOF") /\ points = 0
    /\ resp = <<Resp("200", NoErr)>>

C7_WitnessEOFWithPoints ==
    /\ ParseDecided
    /\ perr.msg = "EOF" /\ points > 0
    /\ resp = <<Resp("error", perr)>>

\* C8: with Content-Encoding gzip, a failure of gzip.NewReader or of reading
\* the body ends the request with a failure, whatever the error is.
C8_DecompressionFailureFails ==
    (ParseDecided /\ req.gzip /\ perr.op \in {"gzip.NewReader", "ReadFrom"}) =>
        (Len(resp) = 1 /\ resp[1].status = "error")

\* C9: a gzip body that decompresses to nothing ends the request with the
\* 200 response, with no call of WritePoints and no failure.
C9_CompressedEmptyIsNoContent ==
    (ParseDecided /\ req.gzip /\ req.body = "gz()" /\ perr.op # "ReadFrom") =>
        /\ pc = "done"
        /\ resp = <<Resp("200", NoErr)>>
        /\ ~HasCall({"WritePoints"})

C9_Witness ==
    /\ pc = "done"
    /\ req.gzip /\ req.body = "gz()"
    /\ HasCall({"ParsePointsWithPrecision"})
    /\ resp = <<Resp("200", NoErr)>>

\* C10: a finished handleWrite has written exactly one response, which is
\* 204, 200 or a failure carrying an error; nothing is written before; the
\* response is 204 exactly when WritePoints was called and returned no error.
C10_ExactlyOneOutcome ==
    /\ pc # "done" => resp = <<>>
    /\ pc = "done" =>
        /\ Len(resp) = 1
        /\ resp[1].status \in {"204", "200", "error"}
        /\ (resp[1].status = "error") <=> (resp[1].err # NoErr)
        /\ (resp[1].status = "204") <=>
               (/\ Len(CallsTo({"WritePoints"})) = 1
                /\ CallsTo({"WritePoints"})[1].code = ""
                /\ werr = NoErr)

C10_Witness ==
    /\ pc = "done"
    /\ resp = <<Resp("204", NoErr)>>
    /\ HasCall({"WritePoints"})
    /\ points > 0

LookupSvcs == {"FindOrganization", "FindBucket", "FindMany", "FindOrganizationByID", "FindBucketByID"}
BodySvcs == {"gzip.NewReader", "ReadFrom", "ParsePointsWithPrecision", "gzip.Close"}

\* C11: WritePoints is called at most once in a request; when it fails its
\* error is the error of the one response written; once a response is
\* written no call is made and nothing more is written.
C11_NoRetry ==
    /\ [](/\ Len(CallsTo({"WritePoints"})) <= 1
          /\ Len(resp) <= 1
          /\ werr # NoErr => (/\ resp = <<Resp("error", werr)>>
                              /\ calls[Len(calls)].svc = "WritePoints"
                              /\ calls[Len(calls)].code = werr.code))
    /\ [][resp # <<>> => (calls' = calls /\ resp' = resp)]_vars

C11_Witness ==
    /\ pc = "done"
    /\ werr = Fault("WritePoints")
    /\ resp = <<Resp("error", werr)>>
    /\ Len(CallsTo({"WritePoints"})) = 1

\* C12: with a well-formed org_id the organization is looked up with a
\* filter that holds that ID and nothing taken from org (no name, no other
\* ID); with a malformed org_id the current scheme fails with the ID-format
\* error and the organization directory is not called.
C12_OrgIDOverridesOrg ==
    (pc \notin {"idle", "precision", "tenantV2"} /\ ~InvalidPrecisionFailure /\ req.org_id # "") =>
        LET oc == CallsTo({"FindOrganization"})
        IN IF IDFromString(req.org_id).err = NoErr
           THEN /\ Len(oc) = 1
                /\ oc[1].id = IDFromString(req.org_id).id
                /\ ~oc[1].hasName /\ oc[1].name = ""
           ELSE /\ oc = <<>>
                /\ err = IDFromString(req.org_id).err

\* C16: a gzip reader that parsePoints opened is closed once, after the read
\* and the parse and before parsePoints returns, on every way out; no reader
\* is opened without Content-Encoding gzip, and when the opening fails
\* nothing is closed or left open.
C16_ReaderClosed ==
    LET opens  == CallsTo({"gzip.NewReader"})
        closes == CallsTo({"gzip.Close"})
    IN /\ pc \notin {"write", "done"} => (opens = <<>> /\ closes = <<>>)
       /\ ~req.gzip => opens = <<>>
       /\ Len(opens) <= 1
       /\ pc \in {"write", "done"} =>
            Len(closes) = (IF opens # <<>> /\ opens[1].code = "" THEN 1 ELSE 0)
       /\ \A i, j \in 1..Len(calls) :
            calls[i].svc = "gzip.Close" =>
               /\ calls[j].svc \in {"gzip.NewReader", "ReadFrom", "ParsePointsWithPrecision"} => j < i
               /\ calls[j].svc = "WritePoints" => i < j

C16_Witness ==
    /\ pc = "done"
    /\ req.gzip /\ req.body = "gz(da"
    /\ perr = PlainErr("ReadFrom", "unexpected EOF")
    /\ calls[Len(calls)].svc = "gzip.Close"

\* C18: a request ended by an invalid precision has made no call at all; one
\* ended by the failure of both schemes has not touched the body; WritePoints
\* is called only after a valid precision, a resolved tenant and a parse
\* without error, after every lookup and every body call, and with the IDs of
\* the resolved organization and bucket.
C18_StageOrder ==
    /\ InvalidPrecisionFailure => calls = <<>>
    /\ (PrecisionDecided /\ req.precision \notin {"", "ns", "us", "ms", "s", "m", "h"}) =>
           (InvalidPrecisionFailure /\ calls = <<>>)
    /\ (err # NoErr /\ v1err # NoErr) =>
           (pc = "done" /\ ~HasCall(BodySvcs \cup {"WritePoints"}))
    /\ \A i, j \in 1..Len(calls) :
           /\ (calls[i].svc \in LookupSvcs /\ calls[j].svc \in BodySvcs) => i < j
           /\ (calls[i].svc \in LookupSvcs \cup BodySvcs /\ calls[j].svc = "WritePoints") => i < j
    /\ \A i \in 1..Len(calls) :
           calls[i].svc = "WritePoints" =>
               /\ precision \in {"", "n", "u", "ms", "s", "m", "h"}
               /\ err = NoErr \/ v1err = NoErr
               /\ org \in Orgs /\ bucket \in Buckets
               /\ HasCall({"ParsePointsWithPrecision"}) /\ perr = NoErr
               /\ calls[i].orgID = org.ID /\ calls[i].id = bucket.ID

C18_Witness ==
    /\ pc = "done"
    /\ req.precision = "us" /\ precision = "u"
    /\ err # NoErr /\ v1err = NoErr
    /\ HasCall({"WritePoints"})
    /\ org.ID = 1 /\ bucket.ID = 11

\* C19: when WritePoints is called, organization and bucket come from the
\* same scheme and the bucket belongs to the organization.
C19_TenantConsistency ==
    HasCall({"WritePoints"}) =>
        /\ bucket.OrganizationID = org.ID
        /\ IF err = NoErr
           THEN ~HasCall({"FindMany", "FindOrganizationByID", "FindBucketByID"})
           ELSE /\ Len(MatchingMappings) = 1
                /\ org.ID = MatchingMappings[1].OrganizationID
                /\ bucket.ID = MatchingMappings[1].BucketID

SameElems(x, y) ==
    /\ Elems(x.Timestamps) = Elems(y.Timestamps)
    /\ Elems(x.Values) = Elems(y.Values)

\* C13: after a.Copy(&dst), dst has the timestamps and values of a, element
\* for element and of a's length, whatever dst held, and a is as it was; so
\* after copies from lengths N1, N2 < N1, N3 > N2 dst has length N3.
C13_CopyPostcondition ==
    /\ []((last.op = "Copy" /\ last.src = "a") =>
            /\ SameElems(dst, a)
            /\ dst.Timestamps.len = a.Timestamps.len
            /\ dst.Timestamps.len = hist[Len(hist)])
    /\ [][(last'.op = "Copy" /\ last'.src = "a") => (a' = a /\ SameElems(dst', a))]_vars

C13_Witness ==
    /\ last.op = "Copy" /\ last.src = "a"
    /\ Len(hist) = 3 /\ hist[2] < hist[1] /\ hist[3] > hist[2] /\ hist[3] = MaxLen
    /\ dst.Timestamps.len = hist[3] /\ dst.Values.len = hist[3]
    /\ SameElems(dst, a)
    /\ a.Timestamps.arr[1] # 0

\* C14: through every sequence of new<T>ArrayLen, Encode (failing or not) and
\* Copy, each array has as many timestamps as values; new<T>ArrayLen(sz)
\* gives sz of each.
C14_EqualLengths ==
    /\ a.Timestamps.len = a.Values.len
    /\ dst.Timestamps.len = dst.Values.len
    /\ d.Timestamps.len = d.Values.len
    /\ last.op = "Construct" =>
         (/\ Len(Elems(a.Timestamps)) = last.sz
          /\ Len(Elems(a.Values)) = last.sz)

C14_Witness ==
    /\ last.op = "Encode" /\ last.err
    /\ a.Timestamps.len = MaxLen /\ a.Values.len = MaxLen
    /\ hist # <<>>
    /\ dst.Timestamps.len = 1 /\ dst.Values.len = 1

\* d holds what decoding buf into new<T>ArrayLen(count) gives
DecodedFromBuf ==
    /\ buf # <<>>
    /\ d = DecodeArrayBlock(buf, newArrayLen(BlockCount(buf), d.Timestamps.id, d.Values.id))

\* C15: when buf is the encoding of a, d the decoding of buf into
\* new<T>ArrayLen(N), and d has just been copied into dst (whatever dst held,
\* whatever its capacity), dst has exactly the timestamps and values of a.
C15_RoundTrip ==
    ( /\ last.op = "Copy" /\ last.src = "d"
      /\ buf = EncodeArrayBlock(a, <<>>)
      /\ DecodedFromBuf )
    => (SameElems(dst, a) /\ dst.Timestamps.len = a.Timestamps.len
                           /\ dst.Values.len = a.Values.len)

\* the round trip into a destination that held a longer populated array
C15_Witness ==
    /\ last.op = "Copy" /\ last.src = "d"
    /\ buf = EncodeArrayBlock(a, <<>>)
    /\ DecodedFromBuf
    /\ a.Timestamps.len = 1 /\ a.Timestamps.arr[1] = 0
    /\ dst.Timestamps.len = 1 /\ Cap(dst.Timestamps) >= 2 /\ dst.Timestamps.arr[2] # 0
    /\ dst.Values.len = 1 /\ Cap(dst.Values) >= 2 /\ dst.Values.arr[2] # 0
    /\ SameElems(dst, a)

\* what Copy does to one slice of dst, given the source slice
ReusesStorage(pre, post, src) ==
    LET n == Len(Elems(src))
    IN /\ Cap(pre) >= n => (post.id = pre.id /\ Cap(post) = Cap(pre) /\ post.len = n)
       /\ Cap(pre) < n => (post.id # pre.id /\ post.id # 0 /\ Cap(post) >= n /\ post.len = n)

\* C17: a.Copy(&dst) keeps the backing array and the capacity of each slice
\* of dst whose capacity is at least the length of a, setting its length to
\* that of a; it takes a new backing array only when the capacity is less.
C17_CopyReusesStorage ==
    [][(last'.op = "Copy" /\ last'.src = "a") =>
          /\ ReusesStorage(dst.Timestamps, dst'.Timestamps, a.Timestamps)
          /\ ReusesStorage(dst.Values, dst'.Values, a.Values)]_vars

\* a copy of a shorter array into the storage of a longer one
C17_Witness ==
    /\ last.op = "Copy" /\ last.src = "a"
    /\ Len(hist) >= 2 /\ hist[Len(hist)] < hist[Len(hist) - 1]
    /\ dst.Timestamps.len = a.Timestamps.len
    /\ Cap(dst.Timestamps) > dst.Timestamps.len
    /\ dst.Timestamps.arr[dst.Timestamps.len + 1] # 0
    /\ Cap(dst.Values) > dst.Values.len
    /\ dst.Values.arr[dst.Values.len + 1] # 0
====
